---- MODULE Spec2Model ----
(***************************************************************************)
(* Model of earedis (src/main.go): a Service wrapping a go-redis client.   *)
(* The store is a key/value map plus one reference set; a single caller    *)
(* issues Service calls, other clients write to the store concurrently,    *)
(* and the caller's context may be cancelled at any moment.                *)
(* Strings are sequences of tokens, so that len(v) and json.Unmarshal are  *)
(* computed on their contents.                                             *)
(***************************************************************************)
EXTENDS Integers, Sequences, FiniteSets, TLC

\* ---------------------------------------------------------------- bounds
\* number of keys the store is observed on
MaxKeys == 2

\* ------------------------------------------------------------- universe
KeyNames == <<"o:1", "o:2", "o:3", "o:4">>
MemberKeys == {KeyNames[n] : n \in 1..MaxKeys}
RefKey == "idx:orders"

Empty == <<>>
Good1 == <<"{", "id", ":", "1", "}">>
Good2 == <<"{", "id", ":", "2", "}">>
Malformed == <<"{", "id", ":">>
Payloads == {Empty, Good1, Good2, Malformed}

Absent == [present |-> FALSE, val |-> Empty]
Held(p) == [present |-> TRUE, val |-> p]
Stored == {Absent} \cup {Held(p) : p \in Payloads}

\* error values
NoErr == "nil"
RedisNil == "redis: nil"
ConnErr == "connection refused"
CtxErr == "context canceled or deadline exceeded"
DecodeErr == "unexpected end of JSON input"
CloseErr == "redis: client is closed"

\* Go slices: nil is distinguished from the empty non-nil slice
NilSlice == [isNil |-> TRUE, elems |-> <<>>]
Slice(s) == [isNil |-> FALSE, elems |-> s]

\* the caller's element type (struct with an integer field id)
Zero == [id |-> 0]
Sentinel == [id |-> 9]
Digit(t) == CASE t = "1" -> 1 [] t = "2" -> 2 [] OTHER -> 0

Perms(S) == {f \in [1..Cardinality(S) -> S] : \A a, b \in 1..Cardinality(S) : a # b => f[a] # f[b]}

\* ---------------------------------------------------------------- state
VARIABLES
  client,      \* s.client: "nil" or "handle"
  pingTTL,     \* *s.c.pingConnectionTTL in seconds
  lcOp,        \* last lifecycle operation and its returned error
  initSince,   \* an Init happened since construction / last successful Disconnect
  panicked,    \* a nil handle was dereferenced
  kv,          \* store: string keys
  refset,      \* store: members of the reference set
  ctxDone,     \* the caller's context is cancelled / past its deadline
  pc, op, key, \* the caller's position, operation and key argument
  members, i, result,   \* locals of SMembersWithChild
  out, out0, j, \* caller's output slice of JSONSMembersWithChild (now, at the call) and loop index
  target,      \* caller's target of JSONGet
  retStr, retSlice, retErr,   \* values returned to the caller
  idxLog,      \* reply of the set-membership query of this call
  getLog,      \* replies of the client gets of this call, in issue order
  heldLog,     \* what the store held for the key at the moment of each of these gets
  decodeLog,   \* positions of result passed to json.Unmarshal, in order
  cancelAt,    \* number of gets issued when the context was cancelled (-1: before the index fetch, -2: never)
  raced        \* another client wrote a member's key between the index fetch and that member's get

lifeVars == <<client, pingTTL, lcOp, initSince>>
storeVars == <<kv, refset>>
loopVars == <<members, i, result, out, out0, j>>
retVars == <<target, retStr, retSlice, retErr>>
logVars == <<idxLog, getLog, heldLog, decodeLog>>
envVars == <<ctxDone, cancelAt, raced>>
vars == <<client, pingTTL, lcOp, initSince, panicked, kv, refset, ctxDone, pc, op, key,
          members, i, result, out, out0, j, target, retStr, retSlice, retErr, idxLog, getLog,
          heldLog, decodeLog, cancelAt, raced>>

NoReply == [members |-> <<>>, err |-> "none"]

\* ------------------------------------------------- the go-redis client
\* client.Get(ctx, key).Result()
ClientGet(store, k, done, netFail) ==
  IF done THEN [key |-> k, val |-> Empty, err |-> CtxErr]
  ELSE IF netFail THEN [key |-> k, val |-> Empty, err |-> ConnErr]
  ELSE IF ~store[k].present THEN [key |-> k, val |-> Empty, err |-> RedisNil]
  ELSE [key |-> k, val |-> store[k].val, err |-> NoErr]

\* client.SMembers(ctx, key).Result(): the members in an order the store picks
ClientSMembers(set, order, done, netFail) ==
  IF done THEN [members |-> <<>>, err |-> CtxErr]
  ELSE IF netFail THEN [members |-> <<>>, err |-> ConnErr]
  ELSE [members |-> order, err |-> NoErr]

\* client.MGet(ctx, keys...).Result(): one entry per key, nil for an absent key
ClientMGet(store, ks, done, netFail) ==
  IF done THEN [vals |-> <<>>, err |-> CtxErr]
  ELSE IF netFail THEN [vals |-> <<>>, err |-> ConnErr]
  ELSE [vals |-> [n \in 1..Len(ks) |-> store[ks[n]]], err |-> NoErr]

\* client.Ping(ctx).Err() under a context with timeout ttl
ClientPing(reachable, ttl) ==
  IF ttl <= 0 THEN CtxErr ELSE IF reachable THEN NoErr ELSE ConnErr

\* json.Unmarshal([]byte(raw), &v): the input is validated before v is touched
Unmarshal(raw, v) ==
  IF raw = <<"null">> \/ raw = <<"{", "}">> THEN [err |-> NoErr, val |-> v]
  ELSE IF /\ Len(raw) = 5
          /\ raw[1] = "{" /\ raw[2] = "id" /\ raw[3] = ":"
          /\ raw[4] \in {"1", "2"} /\ raw[5] = "}"
       THEN [err |-> NoErr, val |-> [v EXCEPT !.id = Digit(raw[4])]]
  ELSE [err |-> DecodeErr, val |-> v]

\* -------------------------------------------------- Service, pure parts
\* NewService: the probe timeout, 30 s when the configuration carries none
DefaultPingTTL == 30
NoTTL == [set |-> FALSE, secs |-> 0]
Configs == {NoTTL, [set |-> TRUE, secs |-> 5], [set |-> TRUE, secs |-> 0]}
NewServiceTTL(cfg) == IF ~cfg.set THEN DefaultPingTTL ELSE cfg.secs

\* Service.Get applied to the client's reply
GetReturn(reply) ==
  IF reply.err # NoErr \/ Len(reply.val) = 0
  THEN [val |-> Empty, err |-> reply.err]
  ELSE [val |-> reply.val, err |-> NoErr]

\* SMembers, MGet: return nil, err / return result, nil
ReturnedSliceAlways(err, elems) == Slice(elems)
ReturnedSlice(err, elems) == IF err # NoErr THEN NilSlice ELSE Slice(elems)

\* SMembersWithChild: the condition under which a member is skipped
SkipNever(g) == FALSE
SkipOnErrorOnly(g) == g.err # NoErr
SkipMember(g) == g.err # NoErr \/ Len(g.val) = 0

ClearCall ==
  /\ pc' = "idle" /\ op' = "none" /\ key' = "none"
  /\ members' = <<>> /\ i' = 0 /\ result' = NilSlice
  /\ out' = NilSlice /\ out0' = NilSlice /\ j' = 0 /\ target' = Sentinel
  /\ retStr' = Empty /\ retSlice' = NilSlice /\ retErr' = "none"
  /\ idxLog' = NoReply /\ getLog' = <<>> /\ heldLog' = <<>> /\ decodeLog' = <<>>
  /\ cancelAt' = -2 /\ raced' = FALSE /\ ctxDone' = FALSE

CallCleared ==
  /\ pc = "idle" /\ op = "none" /\ key = "none"
  /\ members = <<>> /\ i = 0 /\ result = NilSlice
  /\ out = NilSlice /\ out0 = NilSlice /\ j = 0 /\ target = Sentinel
  /\ retStr = Empty /\ retSlice = NilSlice /\ retErr = "none"
  /\ idxLog = NoReply /\ getLog = <<>> /\ heldLog = <<>> /\ decodeLog = <<>>
  /\ cancelAt = -2 /\ raced = FALSE /\ ctxDone = FALSE

\* the state NewService leaves: no handle, an empty store
Constructed ==
  /\ client = "nil"
  /\ pingTTL \in {NewServiceTTL(c) : c \in Configs}
  /\ lcOp = [op |-> "NewService", probe |-> FALSE, err |-> NoErr]
  /\ initSince = FALSE
  /\ panicked = FALSE
  /\ kv = [k \in MemberKeys |-> Absent]
  /\ refset = {}
  /\ CallCleared

\* the state after NewService and an Init whose probe succeeded
Init ==
  /\ client = "handle"
  /\ pingTTL = NewServiceTTL(NoTTL)
  /\ lcOp = [op |-> "Init", probe |-> TRUE, err |-> NoErr]
  /\ initSince = TRUE
  /\ panicked = FALSE
  /\ kv = [k \in MemberKeys |-> Absent]
  /\ refset = {}
  /\ CallCleared

Idle == pc = "idle" /\ ~panicked
Ready == Idle /\ client # "nil"

\* ------------------------------------------------------------ lifecycle
\* NewService: a Service without a handle
NewService(cfg) ==
  /\ Idle
  /\ client' = "nil"
  /\ pingTTL' = NewServiceTTL(cfg)
  /\ lcOp' = [op |-> "NewService", probe |-> FALSE, err |-> NoErr]
  /\ initSince' = FALSE
  /\ UNCHANGED <<panicked, storeVars, envVars, pc, op, key, loopVars, retVars, logVars>>

\* Init: the error Init returns for the probe's error
InitReturn(pingErr) == IF pingErr # NoErr THEN pingErr ELSE NoErr

\* Init: the handle is assigned before the probe
InitService(reachable) ==
  /\ Idle
  /\ client' = "handle"
  /\ LET pingErr == ClientPing(reachable, pingTTL)
     IN  lcOp' = [op |-> "Init", probe |-> (pingErr = NoErr), err |-> InitReturn(pingErr)]
  /\ initSince' = TRUE
  /\ UNCHANGED <<pingTTL, panicked, storeVars, envVars, pc, op, key, loopVars, retVars, logVars>>

\* Disconnect: the handle after client.Close() returned closeErr
HandleDropped(closeErr, c) == "nil"
HandleAfterClose(closeErr, c) == IF closeErr # NoErr THEN c ELSE "nil"

Disconnect(closeErr) ==
  /\ Ready
  /\ client' = HandleAfterClose(closeErr, client)
  /\ lcOp' = [op |-> "Disconnect", probe |-> FALSE, err |-> closeErr]
  /\ initSince' = IF closeErr = NoErr THEN FALSE ELSE initSince
  /\ UNCHANGED <<pingTTL, panicked, storeVars, envVars, pc, op, key, loopVars, retVars, logVars>>

\* any method that dereferences s.client while it is nil panics
Methods == {"Disconnect", "Set", "SAdd", "SMembers", "SMembersWithChild",
            "JSONSMembersWithChild", "Get", "JSONGet", "MGet", "Del"}

NilHandleCall(m) ==
  /\ Idle
  /\ client = "nil"
  /\ panicked' = TRUE
  /\ op' = m
  /\ UNCHANGED <<lifeVars, storeVars, envVars, pc, key, loopVars, retVars, logVars>>

\* ------------------------------------------------------ single-step calls
Set(k, v, netFail) ==
  /\ Ready
  /\ op' = "Set" /\ key' = k /\ pc' = "done"
  /\ LET err == IF ctxDone THEN CtxErr ELSE IF netFail THEN ConnErr ELSE NoErr
     IN  /\ retErr' = err
         /\ kv' = IF err = NoErr THEN [kv EXCEPT ![k] = Held(v)] ELSE kv
  /\ UNCHANGED <<lifeVars, panicked, refset, envVars, loopVars, target, retStr, retSlice, logVars>>

SAdd(m, netFail) ==
  /\ Ready
  /\ op' = "SAdd" /\ key' = RefKey /\ pc' = "done"
  /\ LET err == IF ctxDone THEN CtxErr ELSE IF netFail THEN ConnErr ELSE NoErr
     IN  /\ retErr' = err
         /\ refset' = IF err = NoErr THEN refset \cup {m} ELSE refset
  /\ UNCHANGED <<lifeVars, panicked, kv, envVars, loopVars, target, retStr, retSlice, logVars>>

Del(k, netFail) ==
  /\ Ready
  /\ op' = "Del" /\ key' = k /\ pc' = "done"
  /\ LET err == IF ctxDone THEN CtxErr ELSE IF netFail THEN ConnErr ELSE NoErr
     IN  /\ retErr' = err
         /\ kv' = IF err = NoErr THEN [kv EXCEPT ![k] = Absent] ELSE kv
  /\ UNCHANGED <<lifeVars, panicked, refset, envVars, loopVars, target, retStr, retSlice, logVars>>

SMembers(order, netFail) ==
  /\ Ready
  /\ order \in Perms(refset)
  /\ op' = "SMembers" /\ key' = RefKey /\ pc' = "done"
  /\ LET reply == ClientSMembers(refset, order, ctxDone, netFail)
     IN  /\ idxLog' = reply
         /\ retSlice' = ReturnedSlice(reply.err, reply.members)
         /\ retErr' = reply.err
  /\ UNCHANGED <<lifeVars, panicked, storeVars, envVars, loopVars, target, retStr,
                 getLog, heldLog, decodeLog>>

Get(k, netFail) ==
  /\ Ready
  /\ op' = "Get" /\ key' = k /\ pc' = "done"
  /\ LET reply == ClientGet(kv, k, ctxDone, netFail)
         g == GetReturn(reply)
     IN  /\ getLog' = <<reply>>
         /\ heldLog' = <<kv[k]>>
         /\ retStr' = g.val
         /\ retErr' = g.err
  /\ UNCHANGED <<lifeVars, panicked, storeVars, envVars, loopVars, target, retSlice,
                 idxLog, decodeLog>>

JSONGet(k, netFail) ==
  /\ Ready
  /\ op' = "JSONGet" /\ key' = k /\ pc' = "done"
  /\ LET reply == ClientGet(kv, k, ctxDone, netFail)
     IN  /\ getLog' = <<reply>>
         /\ heldLog' = <<kv[k]>>
         /\ IF reply.err # NoErr \/ Len(reply.val) = 0
            THEN /\ retErr' = reply.err
                 /\ UNCHANGED <<target, decodeLog>>
            ELSE LET u == Unmarshal(reply.val, target)
                 IN  /\ target' = u.val
                     /\ decodeLog' = <<0>>
                     /\ retErr' = u.err
  /\ UNCHANGED <<lifeVars, panicked, storeVars, envVars, loopVars, retStr, retSlice, idxLog>>

MGet(ks, netFail) ==
  /\ Ready
  /\ op' = "MGet" /\ key' = ks[1] /\ pc' = "done"
  /\ LET reply == ClientMGet(kv, ks, ctxDone, netFail)
     IN  /\ retSlice' = ReturnedSlice(reply.err, reply.vals)
         /\ retErr' = reply.err
  /\ UNCHANGED <<lifeVars, panicked, storeVars, envVars, loopVars, target, retStr, logVars>>

\* the caller takes the returned values and is ready for the next call
Return ==
  /\ pc = "done"
  /\ ~panicked
  /\ ClearCall
  /\ UNCHANGED <<lifeVars, panicked, storeVars>>

\* ------------------------------------------------------- the expansion
\* SMembersWithChild: the index fetch is fatal when it returns an error
IndexFailedNever(reply) == FALSE
IndexFailedOnRefusal(reply) == reply.err = ConnErr
IndexFailed(reply) == reply.err # NoErr

\* SMembersWithChild: result = append(result, v)
PrependValue(res, v) == <<v>> \o res
AppendValue(res, v) == Append(res, v)

\* JSONSMembersWithChild: a decode error ends the loop
DecodeFailedNever(u) == FALSE
DecodeFailed(u) == u.err # NoErr

Expansions == {"SMembersWithChild", "JSONSMembersWithChild"}
Outs == {NilSlice, Slice(<<Sentinel>>)}

\* the set-membership query that opens SMembersWithChild, called directly or
\* from JSONSMembersWithChild with the caller's slice o
SMembersWithChild_Index(which, order, netFail) ==
  /\ Ready
  /\ order \in Perms(refset)
  /\ op' = which /\ key' = RefKey
  /\ LET reply == ClientSMembers(refset, order, ctxDone, netFail)
     IN  /\ idxLog' = reply
         /\ IF IndexFailed(reply)
            THEN /\ pc' = "done"
                 /\ retSlice' = NilSlice
                 /\ retErr' = reply.err
                 /\ UNCHANGED <<members, i, result>>
            ELSE /\ pc' = "members"
                 /\ members' = reply.members
                 /\ i' = 0
                 /\ result' = Slice(<<>>)
                 /\ UNCHANGED <<retSlice, retErr>>
  /\ UNCHANGED <<lifeVars, panicked, storeVars, envVars, out, out0, j, target, retStr,
                 getLog, heldLog, decodeLog>>

\* one iteration of the loop over members
SMembersWithChild_Member(netFail) ==
  /\ pc = "members"
  /\ i < Len(members)
  /\ LET member == members[i + 1]
         reply == ClientGet(kv, member, ctxDone, netFail)
         g == GetReturn(reply)
     IN  /\ getLog' = Append(getLog, reply)
         /\ heldLog' = Append(heldLog, kv[member])
         /\ result' = IF SkipMember(g) THEN result
                      ELSE Slice(AppendValue(result.elems, g.val))
  /\ i' = i + 1
  /\ UNCHANGED <<lifeVars, panicked, storeVars, envVars, pc, op, key, members, out, out0, j,
                 retVars, idxLog, decodeLog>>

\* JSONSMembersWithChild: the loop over result from position n on, decoding each
\* item into a new element and appending it to o; it ends at the first decode error
RECURSIVE DecodeFrom(_, _, _, _)
DecodeFrom(items, n, o, log) ==
  IF n >= Len(items) THEN [out |-> o, err |-> NoErr, log |-> log, at |-> n]
  ELSE LET u == Unmarshal(items[n + 1], Zero)
       IN  IF DecodeFailed(u)
           THEN [out |-> o, err |-> u.err, log |-> Append(log, n), at |-> n]
           ELSE DecodeFrom(items, n + 1, Slice(Append(o.elems, u.val)), Append(log, n))

\* the loop over members is over and SMembersWithChild returns
SMembersWithChild_Return ==
  /\ pc = "members"
  /\ op = "SMembersWithChild"
  /\ i = Len(members)
  /\ pc' = "done"
  /\ retSlice' = result
  /\ retErr' = NoErr
  /\ UNCHANGED <<lifeVars, panicked, storeVars, envVars, op, key, loopVars, target, retStr, logVars>>

\* SMembersWithChild has returned result to JSONSMembersWithChild, which decodes
\* it into the caller's slice o
JSONSMembersWithChild_Decode(o) ==
  /\ pc = "members"
  /\ op = "JSONSMembersWithChild"
  /\ i = Len(members)
  /\ LET d == DecodeFrom(result.elems, 0, o, <<>>)
     IN  /\ out0' = o
         /\ out' = d.out
         /\ j' = d.at
         /\ decodeLog' = d.log
         /\ retErr' = d.err
  /\ pc' = "done"
  /\ UNCHANGED <<lifeVars, panicked, storeVars, envVars, op, key, members, i, result,
                 target, retStr, retSlice, idxLog, getLog, heldLog>>

\* ---------------------------------------------------------- environment
\* the members the loop of SMembersWithChild has still to get
Unread == {members[n] : n \in (i + 1)..Len(members)}

\* another client sets, overwrites, deletes or lets expire a key. During an
\* expansion only writes to members still to be read are taken: a write to any
\* other key is not observed by the call and is taken once it has returned.
OtherClientWrite(k, v) ==
  /\ ~panicked
  /\ \/ pc = "idle" /\ UNCHANGED raced
     \/ pc = "members" /\ k \in Unread /\ raced' = TRUE
  /\ kv[k] # v
  /\ kv' = [kv EXCEPT ![k] = v]
  /\ UNCHANGED <<lifeVars, panicked, refset, ctxDone, cancelAt, pc, op, key, loopVars,
                 retVars, logVars>>

\* another client removes a member of the reference set
OtherClientSRem(m) ==
  /\ Idle
  /\ m \in refset
  /\ refset' = refset \ {m}
  /\ UNCHANGED <<lifeVars, panicked, kv, envVars, pc, op, key, loopVars, retVars, logVars>>

\* the caller's context is cancelled or its deadline elapses
CtxCancel ==
  /\ ~panicked
  /\ ~ctxDone
  /\ pc \in {"idle", "members"}
  /\ ctxDone' = TRUE
  /\ cancelAt' = IF pc = "idle" THEN -1 ELSE Len(getLog)
  /\ UNCHANGED <<lifeVars, panicked, storeVars, raced, pc, op, key, loopVars, retVars, logVars>>

\* ------------------------------------------------------- specifications
KeyLists == {<<a>> : a \in MemberKeys} \cup {<<a, b>> : a, b \in MemberKeys}

Next ==
  \/ \E k \in MemberKeys, v \in Payloads, f \in BOOLEAN : Set(k, v, f)
  \/ \E m \in MemberKeys, f \in BOOLEAN : SAdd(m, f)
  \/ \E k \in MemberKeys, f \in BOOLEAN : Del(k, f)
  \/ \E o \in Perms(refset), f \in BOOLEAN : SMembers(o, f)
  \/ \E k \in MemberKeys, f \in BOOLEAN : Get(k, f)
  \/ \E k \in MemberKeys, f \in BOOLEAN : JSONGet(k, f)
  \/ \E ks \in KeyLists, f \in BOOLEAN : MGet(ks, f)
  \/ \E w \in Expansions, r \in Perms(refset), f \in BOOLEAN :
        SMembersWithChild_Index(w, r, f)
  \/ \E f \in BOOLEAN : SMembersWithChild_Member(f)
  \/ SMembersWithChild_Return
  \/ \E o \in Outs : JSONSMembersWithChild_Decode(o)
  \/ \E k \in MemberKeys, v \in Stored : OtherClientWrite(k, v)
  \/ \E m \in MemberKeys : OtherClientSRem(m)
  \/ CtxCancel
  \/ Return

\* calls on a started service, the store shared with other clients
Spec == Init /\ [][Next]_vars

NextLife ==
  \/ \E c \in Configs : NewService(c)
  \/ \E r \in BOOLEAN : InitService(r)
  \/ \E e \in {NoErr, CloseErr} : Disconnect(e)
  \/ \E m \in Methods : NilHandleCall(m)
  \/ \E k \in MemberKeys, v \in Payloads, f \in BOOLEAN : Set(k, v, f)
  \/ \E k \in MemberKeys, f \in BOOLEAN : Get(k, f)
  \/ \E m \in MemberKeys, f \in BOOLEAN : SAdd(m, f)
  \/ \E o \in Perms(refset), f \in BOOLEAN : SMembers(o, f)
  \/ Return

\* the handle's lifecycle from construction on
SpecLife == Constructed /\ [][NextLife]_vars

\* --------------------------------------------------------------- claims
Done(o) == pc = "done" /\ op = o
IndexOk == idxLog.err = NoErr
IndexErr == idxLog.err \in {ConnErr, CtxErr}
Hit(r) == r.err = NoErr /\ r.val # Empty

\* the values a sequence of client replies contributes to the result
RECURSIVE Resolved(_)
Resolved(log) ==
  IF log = <<>> THEN <<>>
  ELSE LET r == log[Len(log)]
       IN  IF r.err = NoErr /\ r.val # Empty
           THEN Append(Resolved(SubSeq(log, 1, Len(log) - 1)), r.val)
           ELSE Resolved(SubSeq(log, 1, Len(log) - 1))

\* C1: when the set-membership query of SMembersWithChild fails, the call
\* returns that error with a nil result and issues no get for any member,
\* whatever the store holds for the members.
C1_IndexFailureIsFatal ==
  (op = "SMembersWithChild" /\ IndexErr) =>
     /\ pc = "done"
     /\ retErr = idxLog.err
     /\ retSlice = NilSlice
     /\ getLog = <<>>

C1_Witness ==
  /\ Done("SMembersWithChild") /\ IndexErr
  /\ Cardinality(refset) = 2
  /\ \A k \in refset : kv[k].present /\ kv[k].val # Empty

\* C2: when the set-membership query succeeds, SMembersWithChild returns a
\* nil error and a non-nil sequence holding one non-empty value per member
\* whose get succeeded with a non-empty value and nothing for the others,
\* for every subset of failing members; with no members it is the empty
\* sequence.
C2_MemberFailuresAreTolerated ==
  (Done("SMembersWithChild") /\ IndexOk) =>
     /\ retErr = NoErr
     /\ ~retSlice.isNil
     /\ Len(getLog) = Len(idxLog.members)
     /\ \A n \in 1..Len(retSlice.elems) : retSlice.elems[n] # Empty
     /\ Len(retSlice.elems) = Cardinality({n \in 1..Len(getLog) : Hit(getLog[n])})
     /\ (idxLog.members = <<>> => retSlice = Slice(<<>>))

C2_Witness ==
  /\ Done("SMembersWithChild") /\ IndexOk
  /\ Len(getLog) = 2
  /\ getLog[1].err = RedisNil
  /\ getLog[2].err = NoErr /\ getLog[2].val = Empty
  /\ retSlice = Slice(<<>>) /\ retErr = NoErr

\* C3: the result of SMembersWithChild is the sequence of the values the
\* members' gets returned, in the order of the set-membership reply,
\* restricted to the gets that resolved to a non-empty value; when every
\* member resolves, result[n] is the value of members[n] and the lengths agree.
C3_ResultFollowsMemberOrder ==
  (Done("SMembersWithChild") /\ IndexOk) =>
     /\ Len(getLog) = Len(idxLog.members)
     /\ \A n \in 1..Len(getLog) : getLog[n].key = idxLog.members[n]
     /\ retSlice.elems = Resolved(getLog)
     /\ (\A n \in 1..Len(getLog) : Hit(getLog[n])) =>
           /\ Len(retSlice.elems) = Len(idxLog.members)
           /\ \A n \in 1..Len(getLog) : retSlice.elems[n] = getLog[n].val

C3_Witness ==
  /\ Done("SMembersWithChild") /\ IndexOk
  /\ idxLog.members = <<KeyNames[2], KeyNames[1]>>
  /\ retSlice.elems = <<Good2, Good1>>
  /\ kv[KeyNames[2]] = Held(Good2) /\ kv[KeyNames[1]] = Held(Good1)

\* positions of raw values json.Unmarshal rejects
Rejected(raws) == {n \in 1..Len(raws) : Unmarshal(raws[n], Zero).err # NoErr}
FirstRejected(raws) == CHOOSE n \in Rejected(raws) : \A m \in Rejected(raws) : n <= m

\* C4: JSONSMembersWithChild into an empty output sequence, the first
\* malformed resolved value being at position k (counted from 0): the call
\* returns the decode error, has decoded positions 0..k and no later one, and
\* the output holds exactly the k elements decoded from positions 0..k-1, in order.
C4_DecodeErrorKeepsPrefix ==
  (Done("JSONSMembersWithChild") /\ IndexOk /\ out0.elems = <<>>
     /\ Rejected(result.elems) # {}) =>
     LET k == FirstRejected(result.elems) - 1
     IN  /\ retErr = DecodeErr
         /\ decodeLog = [n \in 1..(k + 1) |-> n - 1]
         /\ Len(out.elems) = k
         /\ \A n \in 1..k : out.elems[n] = Unmarshal(result.elems[n], Zero).val

C4_Witness ==
  /\ Done("JSONSMembersWithChild") /\ IndexOk /\ out0.elems = <<>>
  /\ result.elems = <<Good2, Malformed>>
  /\ out.elems = <<[id |-> 2]>>
  /\ retErr = DecodeErr

\* the store's get found no value, or found the empty string
NotFoundOrEmpty ==
  /\ Len(getLog) = 1
  /\ \/ getLog[1].err = RedisNil
     \/ getLog[1].err = NoErr /\ getLog[1].val = Empty

\* C5: whenever the store's get returns no value or the empty string, Get and
\* JSONGet return a non-nil error, and JSONGet leaves the target undecoded.
C5_NotFoundOrEmptyIsError ==
  ((Done("Get") \/ Done("JSONGet")) /\ NotFoundOrEmpty) =>
     /\ retErr # NoErr
     /\ target = Sentinel

\* C6 as stated: every operation ends in one of two shapes, a populated
\* result with a nil error or a nil/zero result with a non-nil error; no
\* empty result with nil error caused by a failure, no partly populated
\* result with a non-nil error.
C6_TwoShapes ==
  /\ Done("Get") =>
        \/ retErr = NoErr /\ retStr # Empty
        \/ retErr # NoErr /\ retStr = Empty
  /\ Done("JSONGet") =>
        \/ retErr = NoErr /\ decodeLog # <<>>
        \/ retErr # NoErr /\ target = Sentinel
  /\ (Done("MGet") \/ Done("SMembers")) =>
        \/ retErr = NoErr /\ ~retSlice.isNil
        \/ retErr # NoErr /\ retSlice = NilSlice
  /\ Done("SMembersWithChild") =>
        \/ /\ retErr = NoErr /\ ~retSlice.isNil
           /\ retSlice.elems = <<>> => \A n \in 1..Len(getLog) : Hit(getLog[n])
        \/ retErr # NoErr /\ retSlice = NilSlice
  /\ Done("JSONSMembersWithChild") =>
        \/ /\ retErr = NoErr
           /\ Len(out.elems) = Len(out0.elems) => \A n \in 1..Len(getLog) : Hit(getLog[n])
        \/ retErr # NoErr /\ out = out0

\* C6 as amended: a non-nil error comes with a nil/zero result and a nil
\* error with the store's result, with three exceptions. A nil error comes
\* with an empty result when Get or JSONGet find the empty string, and with an
\* empty non-nil sequence when SMembersWithChild resolves no member; the
\* decode error of JSONSMembersWithChild comes with the output holding what
\* was decoded before the failing item.
C6_ShapesOfTheCode ==
  /\ Done("Get") =>
        /\ retErr = getLog[1].err
        /\ retErr # NoErr => retStr = Empty
        /\ retErr = NoErr => retStr = getLog[1].val
  /\ Done("JSONGet") =>
        /\ retErr # NoErr => target = Sentinel
        /\ retErr = NoErr => (decodeLog # <<>> \/ getLog[1].val = Empty)
        /\ (retErr = NoErr /\ decodeLog = <<>>) => target = Sentinel
  /\ (Done("MGet") \/ Done("SMembers")) =>
        \/ retErr = NoErr /\ ~retSlice.isNil
        \/ retErr # NoErr /\ retSlice = NilSlice
  /\ Done("SMembers") => retErr = idxLog.err
  /\ Done("SMembersWithChild") =>
        \/ retErr = NoErr /\ IndexOk /\ ~retSlice.isNil
        \/ retErr # NoErr /\ IndexErr /\ retSlice = NilSlice
  /\ Done("JSONSMembersWithChild") =>
        \/ /\ retErr = NoErr /\ IndexOk
           /\ Len(out.elems) = Len(out0.elems) + Len(result.elems)
        \/ retErr # NoErr /\ IndexErr /\ out = out0
        \/ /\ retErr = DecodeErr /\ IndexOk
           /\ Len(out.elems) = Len(out0.elems) + FirstRejected(result.elems) - 1
           /\ SubSeq(out.elems, 1, Len(out0.elems)) = out0.elems

C6_Witness ==
  /\ Done("JSONSMembersWithChild")
  /\ retErr = DecodeErr
  /\ out0 = Slice(<<Sentinel>>)
  /\ out = Slice(<<Sentinel, [id |-> 1]>>)
  /\ Len(getLog) = 2 /\ Hit(getLog[1]) /\ Hit(getLog[2])

\* C7: a context cancelled before the index fetch makes SMembersWithChild
\* return an error. Cancelled after the index fetch succeeded, at any point
\* of the loop, every get issued from then on fails and is skipped, and the
\* call returns a nil error with exactly the values resolved before the
\* cancellation.
C7_CancellationFatalOnlyAtIndex ==
  /\ (Done("SMembersWithChild") /\ cancelAt = -1) =>
        retErr = CtxErr /\ retSlice = NilSlice
  /\ (op = "SMembersWithChild" /\ cancelAt >= 0) =>
        /\ IndexOk
        /\ \A n \in (cancelAt + 1)..Len(getLog) : getLog[n].err = CtxErr
        /\ result.elems = Resolved(SubSeq(getLog, 1, cancelAt))
        /\ pc = "done" =>
              /\ retErr = NoErr
              /\ Len(getLog) = Len(members)
              /\ retSlice = Slice(Resolved(SubSeq(getLog, 1, cancelAt)))

C7_Witness ==
  /\ Done("SMembersWithChild")
  /\ cancelAt = 1 /\ Len(getLog) = 2
  /\ heldLog[2] = Held(Good2)
  /\ retSlice = Slice(<<Good1>>) /\ retErr = NoErr

\* the values a call gets from what the store held at each of its gets
RECURSIVE HeldResolved(_, _)
HeldResolved(held, log) ==
  IF held = <<>> THEN <<>>
  ELSE LET rest == HeldResolved(Tail(held), Tail(log))
       IN  IF log[1].err = NoErr /\ held[1].present /\ held[1].val # Empty
           THEN <<held[1].val>> \o rest
           ELSE rest

\* C9: when other clients delete, expire or overwrite members' keys between
\* the index fetch and the members' gets, SMembersWithChild still succeeds;
\* every returned value is a non-empty value the member's key held at the
\* moment of its own get, and a member stale by then is omitted.
C9_RacingWritersAreTolerated ==
  (Done("SMembersWithChild") /\ IndexOk /\ raced) =>
     /\ retErr = NoErr
     /\ ~retSlice.isNil
     /\ Len(heldLog) = Len(members)
     /\ retSlice.elems = HeldResolved(heldLog, getLog)
     /\ \A n \in 1..Len(retSlice.elems) : retSlice.elems[n] # Empty

C9_Witness ==
  /\ Done("SMembersWithChild") /\ IndexOk /\ raced
  /\ Len(members) = 2
  /\ getLog[1].err = RedisNil /\ heldLog[1] = Absent
  /\ getLog[2].err = NoErr /\ heldLog[2] = Held(Good2)
  /\ retSlice = Slice(<<Good2>>)

\* C8: Init returns nil exactly when the probe succeeds, and after an Init
\* whose probe failed the service holds no handle and no later call reaches
\* the store through it.
C8_FailedInitLeavesNoHandle ==
  lcOp.op = "Init" =>
     /\ (lcOp.err = NoErr) <=> lcOp.probe
     /\ ~lcOp.probe => (client = "nil" /\ pc # "done")

\* C10: the handle is nil after NewService and after every successful
\* Disconnect, non-nil after every Init, also one whose probe failed, and
\* unchanged by a Disconnect that returns an error; a nil handle is
\* dereferenced only by a call made when no Init has happened since
\* construction and since the last successful Disconnect, and calls complete
\* only when one has.
C10_HandleLifecycle ==
  /\ [](/\ lcOp.op = "NewService" => client = "nil"
        /\ (lcOp.op = "Disconnect" /\ lcOp.err = NoErr) => client = "nil"
        /\ lcOp.op = "Init" => client # "nil"
        /\ (client # "nil") <=> initSince
        /\ panicked => ~initSince
        /\ pc = "done" => initSince)
  /\ [][(lcOp'.op = "Disconnect" /\ lcOp'.err # NoErr) => client' = client]_vars

C10_Witness ==
  /\ panicked /\ op = "Disconnect"
  /\ lcOp = [op |-> "Disconnect", probe |-> FALSE, err |-> NoErr]
====
